---- MODULE Spec2Model ----
(***************************************************************************)
(* Model of the RPA repository: the element-interaction facade             *)
(* (rpa_builder/base.py, class RPABuilder) and the site workflow           *)
(* (robots/sandiego.py, class SandiegoRPA and main()).                     *)
(*                                                                         *)
(* The browser driver (RPA.Browser.Selenium) is the environment.  Every    *)
(* driver call either succeeds or raises; the outcome of each call is an   *)
(* input, drawn from Outcome.  A facade method is an operator that maps    *)
(* the content of the addressed text field, the method's arguments and the *)
(* outcomes of the driver calls it makes to a result record                *)
(*   [raised, exc, ret, calls, field]                                      *)
(* where calls is the sequence of driver calls performed, each recorded    *)
(* as <<function, locator, argument, outcome>>.                            *)
(*                                                                         *)
(* Python values: a str is a sequence of one-character strings, None is    *)
(* the value None below (distinct from every str), an exception is a       *)
(* record [kind, msg] whose msg is the sequence of the pieces its f-string *)
(* concatenates, so that str(e) embedded in another message keeps the      *)
(* pieces of e.                                                            *)
(***************************************************************************)
EXTENDS Integers, Sequences, FiniteSets, TLC

\* ------------------------------------------------------------------ bounds
MaxLen == 2

\* ------------------------------------------------------------ value spaces
Chars == {"a", "b"}
Text == UNION {[1..n -> Chars] : n \in 0..MaxLen}
None == <<"None">>
True == <<"True">>
False == <<"False">>

OK == "ok"
Faults == {"TimeoutException", "WebDriverException"}
Outcome == {OK} \cup Faults
BoolOutcome == {"True", "False"} \cup Faults
IsFault(out) == out \in Faults
Oracle(n) == [1..n -> Outcome]
Rest(o, n) == SubSeq(o, n + 1, Len(o))

Locators == {"id:username", "xpath://a[@module='DSD']"}
Urls == {<<"https://portal">>}
Filenames == {<<"screenshot.png">>}
SelectBys == {"value", "label", "index", "text"}
Actions == {"click", "enter_text", "hover"}

VARIABLES
    op,            \* facade method last invoked by a caller ("none": idle)
    args,          \* the arguments and driver outcomes of that invocation
    res,           \* its result record
    input_clears,  \* whether the driver's input_text clears the field first
    pc,            \* position of main(): the statement about to run
    stmt,          \* index of the next statement inside login / initiate_application
    manager,       \* TRUE once the local variable manager of main() is bound
    form_data,     \* SandiegoRPA.form_data
    calls,         \* driver calls performed by the run of main()
    pending,       \* exception currently propagating in main()
    exit           \* exception that left main() (NoExc: returned normally)

vars == <<op, args, res, input_clears, pc, stmt, manager, form_data, calls, pending, exit>>

\* --------------------------------------------------------------- exceptions
NoExc == [kind |-> "none", msg |-> <<>>]
Exception(msg) == [kind |-> "Exception", msg |-> msg]
ValueError(msg) == [kind |-> "ValueError", msg |-> msg]
DriverFault(out) == [kind |-> out, msg |-> <<out>>]
Str(e) == e.msg
Contains(msg, piece) == \E i \in 1..Len(msg) : msg[i] = piece

\* ------------------------------------------------------------------ results
Return(ret, cs, field) ==
    [raised |-> FALSE, exc |-> NoExc, ret |-> ret, calls |-> cs, field |-> field]
Raise(e, cs, field) ==
    [raised |-> TRUE, exc |-> e, ret |-> None, calls |-> cs, field |-> field]
NoResult == Return(None, <<>>, <<>>)

\* ------------------------------------------------------------------- driver
Drv(fn, locator, arg, out) == <<fn, locator, arg, out>>
WebElement(locator) == <<"WebElement", locator>>
\* WebElement.clear(): the field is emptied.
DrvClear(field) == <<>>
\* Selenium.input_text(locator, text): types the text, after clearing the
\* field when the driver's clear flag (not passed by the facade) is on.
DrvInputText(field, text) == IF input_clears THEN text ELSE field \o text

\* ------------------------------------------------------------------- facade
open_browser(field, url, o) ==
    LET c == Drv("open_available_browser", "", url, o[1])
    IN  IF IsFault(o[1])
        THEN Raise(Exception(<<"Failed to open browser: ">> \o Str(DriverFault(o[1]))), <<c>>, field)
        ELSE Return(None, <<c>>, field)

find_element(field, locator, o) ==
    LET w == Drv("wait_until_element_is_visible", locator, <<>>, o[1])
        f == Drv("find_element", locator, <<>>, o[2])
    IN  IF IsFault(o[1])
        THEN Raise(Exception(<<"Element not found: ", locator, " - ">> \o Str(DriverFault(o[1]))),
                   <<w>>, field)
        ELSE IF IsFault(o[2])
        THEN Raise(Exception(<<"Element not found: ", locator, " - ">> \o Str(DriverFault(o[2]))),
                   <<w, f>>, field)
        ELSE Return(WebElement(locator), <<w, f>>, field)

find_elements(field, locator, o) ==
    LET w == Drv("wait_until_page_contains_element", locator, <<>>, o[1])
        f == Drv("find_elements", locator, <<>>, o[2])
    IN  IF IsFault(o[1])
        THEN Raise(Exception(<<"Elements not found: ", locator, " - ">> \o Str(DriverFault(o[1]))),
                   <<w>>, field)
        ELSE IF IsFault(o[2])
        THEN Raise(Exception(<<"Elements not found: ", locator, " - ">> \o Str(DriverFault(o[2]))),
                   <<w, f>>, field)
        ELSE Return(<<"WebElements", locator>>, <<w, f>>, field)

\* enter_text with clear_before_enter ignored: the field is never cleared.
enter_text_never_clears(field, locator, text, clear_before_enter, o) ==
    LET r == find_element(field, locator, o)
        o2 == Rest(o, Len(r.calls))
        wrap(e) == Exception(<<"Failed to enter text into ", locator, ": ">> \o Str(e))
        i == Drv("input_text", locator, text, o2[1])
    IN  IF r.raised THEN Raise(wrap(r.exc), r.calls, field)
        ELSE IF IsFault(o2[1])
        THEN Raise(wrap(DriverFault(o2[1])), r.calls \o <<i>>, field)
        ELSE Return(None, r.calls \o <<i>>, DrvInputText(field, text))

enter_text(field, locator, text, clear_before_enter, o) ==
    LET r == find_element(field, locator, o)
        o2 == Rest(o, Len(r.calls))
        wrap(e) == Exception(<<"Failed to enter text into ", locator, ": ">> \o Str(e))
        c == Drv("clear", locator, <<>>, o2[1])
        cs1 == IF clear_before_enter THEN r.calls \o <<c>> ELSE r.calls
        f1 == IF clear_before_enter THEN DrvClear(field) ELSE field
        o3 == IF clear_before_enter THEN Rest(o2, 1) ELSE o2
        i == Drv("input_text", locator, text, o3[1])
    IN  IF r.raised THEN Raise(wrap(r.exc), r.calls, field)
        ELSE IF clear_before_enter /\ IsFault(o2[1])
        THEN Raise(wrap(DriverFault(o2[1])), cs1, field)
        ELSE IF IsFault(o3[1])
        THEN Raise(wrap(DriverFault(o3[1])), cs1 \o <<i>>, f1)
        ELSE Return(None, cs1 \o <<i>>, DrvInputText(f1, text))

\* enter_text_with_delay passing the whole text, not the character, to every write.
enter_text_with_delay_writes_text(field, locator, text, clear_before_enter, o) ==
    LET r == find_element(field, locator, o)
        o2 == Rest(o, Len(r.calls))
        wrap(e) == Exception(<<"Failed to enter text with delay into ", locator, ": ">> \o Str(e))
        c == Drv("clear", locator, <<>>, o2[1])
        cs1 == IF clear_before_enter THEN r.calls \o <<c>> ELSE r.calls
        f1 == IF clear_before_enter THEN DrvClear(field) ELSE field
        o3 == IF clear_before_enter THEN Rest(o2, 1) ELSE o2
        loop[k \in 0..Len(text)] ==
            IF k = 0 THEN Return(None, cs1, f1)
            ELSE LET p == loop[k - 1]
                     i == Drv("input_text", locator, text, o3[k])
                     s == Drv("time.sleep", "", <<>>, OK)
                 IN  IF p.raised THEN p
                     ELSE IF IsFault(o3[k])
                     THEN Raise(wrap(DriverFault(o3[k])), p.calls \o <<i>>, p.field)
                     ELSE Return(None, p.calls \o <<i, s>>, DrvInputText(p.field, text))
    IN  IF r.raised THEN Raise(wrap(r.exc), r.calls, field)
        ELSE IF clear_before_enter /\ IsFault(o2[1])
        THEN Raise(wrap(DriverFault(o2[1])), cs1, field)
        ELSE loop[Len(text)]

enter_text_with_delay(field, locator, text, clear_before_enter, o) ==
    LET r == find_element(field, locator, o)
        o2 == Rest(o, Len(r.calls))
        wrap(e) == Exception(<<"Failed to enter text with delay into ", locator, ": ">> \o Str(e))
        c == Drv("clear", locator, <<>>, o2[1])
        cs1 == IF clear_before_enter THEN r.calls \o <<c>> ELSE r.calls
        f1 == IF clear_before_enter THEN DrvClear(field) ELSE field
        o3 == IF clear_before_enter THEN Rest(o2, 1) ELSE o2
        \* for char in text: input_text(locator, char); time.sleep(delay)
        loop[k \in 0..Len(text)] ==
            IF k = 0 THEN Return(None, cs1, f1)
            ELSE LET p == loop[k - 1]
                     i == Drv("input_text", locator, <<text[k]>>, o3[k])
                     s == Drv("time.sleep", "", <<>>, OK)
                 IN  IF p.raised THEN p
                     ELSE IF IsFault(o3[k])
                     THEN Raise(wrap(DriverFault(o3[k])), p.calls \o <<i>>, p.field)
                     ELSE Return(None, p.calls \o <<i, s>>, DrvInputText(p.field, <<text[k]>>))
    IN  IF r.raised THEN Raise(wrap(r.exc), r.calls, field)
        ELSE IF clear_before_enter /\ IsFault(o2[1])
        THEN Raise(wrap(DriverFault(o2[1])), cs1, field)
        ELSE loop[Len(text)]

is_element_visible(field, locator, b) ==
    LET c == Drv("is_element_visible", locator, <<>>, b)
    IN  IF IsFault(b)
        THEN Raise(Exception(<<"Error checking visibility of ", locator, ": ">> \o Str(DriverFault(b))),
                   <<c>>, field)
        ELSE Return(<<b>>, <<c>>, field)

get_text(field, locator, o) ==
    LET r == find_element(field, locator, o)
        o2 == Rest(o, Len(r.calls))
        wrap(e) == Exception(<<"Failed to get text from ", locator, ": ">> \o Str(e))
        g == Drv("get_text", locator, <<>>, o2[1])
    IN  IF r.raised THEN Raise(wrap(r.exc), r.calls, field)
        ELSE IF IsFault(o2[1]) THEN Raise(wrap(DriverFault(o2[1])), r.calls \o <<g>>, field)
        ELSE Return(field, r.calls \o <<g>>, field)

\* click_element with the click outside its try block: a fault of the click
\* leaves the method as the driver raised it.
click_element_unguarded_click(field, locator, o) ==
    LET r == find_element(field, locator, o)
        o2 == Rest(o, Len(r.calls))
        wrap(e) == Exception(<<"Failed to click element ", locator, ": ">> \o Str(e))
        c == Drv("click_element", locator, <<>>, o2[1])
    IN  IF r.raised THEN Raise(wrap(r.exc), r.calls, field)
        ELSE IF IsFault(o2[1]) THEN Raise(DriverFault(o2[1]), r.calls \o <<c>>, field)
        ELSE Return(None, r.calls \o <<c>>, field)

click_element(field, locator, o) ==
    LET r == find_element(field, locator, o)
        o2 == Rest(o, Len(r.calls))
        wrap(e) == Exception(<<"Failed to click element ", locator, ": ">> \o Str(e))
        c == Drv("click_element", locator, <<>>, o2[1])
    IN  IF r.raised THEN Raise(wrap(r.exc), r.calls, field)
        ELSE IF IsFault(o2[1]) THEN Raise(wrap(DriverFault(o2[1])), r.calls \o <<c>>, field)
        ELSE Return(None, r.calls \o <<c>>, field)

take_screenshot(field, filename, o) ==
    LET c == Drv("capture_page_screenshot", "", filename, o[1])
    IN  IF IsFault(o[1])
        THEN Raise(Exception(<<"Failed to take screenshot: ">> \o Str(DriverFault(o[1]))), <<c>>, field)
        ELSE Return(None, <<c>>, field)

select_option(field, locator, value, select_by, o) ==
    LET r == find_element(field, locator, o)
        o2 == Rest(o, Len(r.calls))
        wrap(e) == Exception(<<"Failed to select option from ", locator, ": ">> \o Str(e))
        fn == IF select_by = "value" THEN "select_from_list_by_value"
              ELSE IF select_by = "label" THEN "select_from_list_by_label"
              ELSE "select_from_list_by_index"
        c == Drv(fn, locator, value, o2[1])
    IN  IF r.raised THEN Raise(wrap(r.exc), r.calls, field)
        ELSE IF IsFault(o2[1]) THEN Raise(wrap(DriverFault(o2[1])), r.calls \o <<c>>, field)
        ELSE Return(None, r.calls \o <<c>>, field)

wait_for_element_to_be_visible(field, locator, o) ==
    LET w == Drv("wait_until_element_is_visible", locator, <<>>, o[1])
    IN  IF IsFault(o[1])
        THEN Raise(Exception(<<"Element ", locator, " did not become visible within ", "timeout",
                               " seconds: ">> \o Str(DriverFault(o[1]))), <<w>>, field)
        ELSE Return(None, <<w>>, field)

\* is_element_interactable with the enabled check outside its try block.
is_element_interactable_unguarded_check(field, locator, o, b) ==
    LET r == find_element(field, locator, o)
        e == Drv("is_element_enabled", locator, <<>>, b)
    IN  IF r.raised THEN Return(False, r.calls, field)
        ELSE IF IsFault(b) THEN Raise(DriverFault(b), r.calls \o <<e>>, field)
        ELSE Return(<<b>>, r.calls \o <<e>>, field)

is_element_interactable(field, locator, o, b) ==
    LET r == find_element(field, locator, o)
        e == Drv("is_element_enabled", locator, <<>>, b)
    IN  IF r.raised THEN Return(False, r.calls, field)
        ELSE IF IsFault(b) THEN Return(False, r.calls \o <<e>>, field)
        ELSE Return(<<b>>, r.calls \o <<e>>, field)

interact_with_element(field, locator, action, text, o, b) ==
    LET p == is_element_interactable(field, locator, o, b)
        o2 == Rest(o, 2)
        c == click_element(field, locator, o2)
        t == enter_text(field, locator, text, TRUE, o2)
    IN  IF p.ret = True
        THEN IF action = "click"
             THEN [c EXCEPT !.calls = p.calls \o c.calls]
             ELSE IF action = "enter_text"
             THEN IF text = None
                  THEN Raise(ValueError(<<"Text must be provided for 'enter_text' action.">>),
                             p.calls, field)
                  ELSE [t EXCEPT !.calls = p.calls \o t.calls]
             ELSE Raise(ValueError(<<"Invalid action: ", action>>), p.calls, field)
        ELSE Raise(Exception(<<"Element ", locator, " is not interactable">>), p.calls, field)

wait_for_load(field, locator, o) ==
    LET w == Drv("wait_until_page_contains_element", locator, <<>>, o[1])
    IN  IF IsFault(o[1])
        THEN Raise(Exception(<<"Page did not load within ", "timeout", " seconds: ">>
                             \o Str(DriverFault(o[1]))), <<w>>, field)
        ELSE Return(None, <<w>>, field)

wait(field) == Return(None, <<Drv("time.sleep", "", <<>>, OK)>>, field)

close_browser(field, o) ==
    LET c == Drv("close_browser", "", <<>>, o[1])
    IN  IF IsFault(o[1])
        THEN Raise(Exception(<<"Failed to close browser: ">> \o Str(DriverFault(o[1]))), <<c>>, field)
        ELSE Return(None, <<c>>, field)

\* ----------------------------------------------------------- facade callers
\* A caller invokes one facade method on a page whose addressed field holds
\* any content, with any arguments, against any driver behaviour.
Args(locator, text, flag, mode, prior) ==
    [locator |-> locator, text |-> text, flag |-> flag, mode |-> mode, prior |-> prior]
NoArgs == Args("", <<>>, FALSE, "", <<>>)

Call_open_browser ==
    /\ op = "none"
    /\ \E f \in Text, u \in Urls, o \in Oracle(1) :
           /\ op' = "open_browser"
           /\ args' = Args("", u, FALSE, "", f)
           /\ res' = open_browser(f, u, o)
    /\ UNCHANGED <<input_clears, pc, stmt, manager, form_data, calls, pending, exit>>

Call_find_element ==
    /\ op = "none"
    /\ \E f \in Text, l \in Locators, o \in Oracle(2) :
           /\ op' = "find_element"
           /\ args' = Args(l, <<>>, FALSE, "", f)
           /\ res' = find_element(f, l, o)
    /\ UNCHANGED <<input_clears, pc, stmt, manager, form_data, calls, pending, exit>>

Call_find_elements ==
    /\ op = "none"
    /\ \E f \in Text, l \in Locators, o \in Oracle(2) :
           /\ op' = "find_elements"
           /\ args' = Args(l, <<>>, FALSE, "", f)
           /\ res' = find_elements(f, l, o)
    /\ UNCHANGED <<input_clears, pc, stmt, manager, form_data, calls, pending, exit>>

Call_enter_text ==
    /\ op = "none"
    /\ \E f \in Text, l \in Locators, t \in Text, c \in BOOLEAN, o \in Oracle(4) :
           /\ op' = "enter_text"
           /\ args' = Args(l, t, c, "", f)
           /\ res' = enter_text(f, l, t, c, o)
    /\ UNCHANGED <<input_clears, pc, stmt, manager, form_data, calls, pending, exit>>

Call_enter_text_with_delay ==
    /\ op = "none"
    /\ \E f \in Text, l \in Locators, t \in Text, c \in BOOLEAN :
       \E o \in Oracle(Len(t) + 3) :
           /\ op' = "enter_text_with_delay"
           /\ args' = Args(l, t, c, "", f)
           /\ res' = enter_text_with_delay(f, l, t, c, o)
    /\ UNCHANGED <<input_clears, pc, stmt, manager, form_data, calls, pending, exit>>

Call_is_element_visible ==
    /\ op = "none"
    /\ \E f \in Text, l \in Locators, b \in BoolOutcome :
           /\ op' = "is_element_visible"
           /\ args' = Args(l, <<>>, FALSE, "", f)
           /\ res' = is_element_visible(f, l, b)
    /\ UNCHANGED <<input_clears, pc, stmt, manager, form_data, calls, pending, exit>>

Call_get_text ==
    /\ op = "none"
    /\ \E f \in Text, l \in Locators, o \in Oracle(3) :
           /\ op' = "get_text"
           /\ args' = Args(l, <<>>, FALSE, "", f)
           /\ res' = get_text(f, l, o)
    /\ UNCHANGED <<input_clears, pc, stmt, manager, form_data, calls, pending, exit>>

Call_click_element ==
    /\ op = "none"
    /\ \E f \in Text, l \in Locators, o \in Oracle(3) :
           /\ op' = "click_element"
           /\ args' = Args(l, <<>>, FALSE, "", f)
           /\ res' = click_element(f, l, o)
    /\ UNCHANGED <<input_clears, pc, stmt, manager, form_data, calls, pending, exit>>

Call_take_screenshot ==
    /\ op = "none"
    /\ \E f \in Text, n \in Filenames, o \in Oracle(1) :
           /\ op' = "take_screenshot"
           /\ args' = Args("", n, FALSE, "", f)
           /\ res' = take_screenshot(f, n, o)
    /\ UNCHANGED <<input_clears, pc, stmt, manager, form_data, calls, pending, exit>>

Call_select_option ==
    /\ op = "none"
    /\ \E f \in Text, l \in Locators, v \in Text, by \in SelectBys, o \in Oracle(3) :
           /\ op' = "select_option"
           /\ args' = Args(l, v, FALSE, by, f)
           /\ res' = select_option(f, l, v, by, o)
    /\ UNCHANGED <<input_clears, pc, stmt, manager, form_data, calls, pending, exit>>

Call_wait_for_element_to_be_visible ==
    /\ op = "none"
    /\ \E f \in Text, l \in Locators, o \in Oracle(1) :
           /\ op' = "wait_for_element_to_be_visible"
           /\ args' = Args(l, <<>>, FALSE, "", f)
           /\ res' = wait_for_element_to_be_visible(f, l, o)
    /\ UNCHANGED <<input_clears, pc, stmt, manager, form_data, calls, pending, exit>>

Call_is_element_interactable ==
    /\ op = "none"
    /\ \E f \in Text, l \in Locators, o \in Oracle(2), b \in BoolOutcome :
           /\ op' = "is_element_interactable"
           /\ args' = Args(l, <<>>, FALSE, "", f)
           /\ res' = is_element_interactable(f, l, o, b)
    /\ UNCHANGED <<input_clears, pc, stmt, manager, form_data, calls, pending, exit>>

Call_interact_with_element ==
    /\ op = "none"
    /\ \E f \in Text, l \in Locators, a \in Actions, b \in BoolOutcome :
       \E t \in (IF a = "enter_text" THEN Text ELSE {}) \cup {None},
          o \in Oracle(IF a = "click" THEN 5 ELSE IF a = "enter_text" THEN 6 ELSE 2) :
           /\ op' = "interact_with_element"
           /\ args' = Args(l, t, FALSE, a, f)
           /\ res' = interact_with_element(f, l, a, t, o, b)
    /\ UNCHANGED <<input_clears, pc, stmt, manager, form_data, calls, pending, exit>>

Call_wait_for_load ==
    /\ op = "none"
    /\ \E f \in Text, l \in Locators, o \in Oracle(1) :
           /\ op' = "wait_for_load"
           /\ args' = Args(l, <<>>, FALSE, "", f)
           /\ res' = wait_for_load(f, l, o)
    /\ UNCHANGED <<input_clears, pc, stmt, manager, form_data, calls, pending, exit>>

Call_wait ==
    /\ op = "none"
    /\ \E f \in Text :
           /\ op' = "wait"
           /\ args' = Args("", <<>>, FALSE, "", f)
           /\ res' = wait(f)
    /\ UNCHANGED <<input_clears, pc, stmt, manager, form_data, calls, pending, exit>>

Call_close_browser ==
    /\ op = "none"
    /\ \E f \in Text, o \in Oracle(1) :
           /\ op' = "close_browser"
           /\ args' = Args("", <<>>, FALSE, "", f)
           /\ res' = close_browser(f, o)
    /\ UNCHANGED <<input_clears, pc, stmt, manager, form_data, calls, pending, exit>>

\* The caller has consumed the result and may invoke the next method.
Resume ==
    /\ op # "none"
    /\ op' = "none"
    /\ args' = NoArgs
    /\ res' = NoResult
    /\ UNCHANGED <<input_clears, pc, stmt, manager, form_data, calls, pending, exit>>

\* ----------------------------------------------------------------- workflow
TypeError(msg) == [kind |-> "TypeError", msg |-> msg]
FileNotFoundError(msg) == [kind |-> "FileNotFoundError", msg |-> msg]
UnboundLocalError(msg) == [kind |-> "UnboundLocalError", msg |-> msg]
KeyboardInterrupt == [kind |-> "KeyboardInterrupt", msg |-> <<>>]

\* The config file data/sandiego.json and the logs directory, as found at start.
Creds == {<<"a">>, <<"b">>}
Configs == [base_url : Urls, credentials : [username : Creds, password : Creds]]
Env == [logs : BOOLEAN, readable : BOOLEAN, json : Configs]

\* dict.get(key): the value, or None when the key is absent.
Get(d, k) == IF k \in DOMAIN d THEN d[k] ELSE None

\* get_logger(): logging.FileHandler raises when logs/ cannot be written.
get_logger(env) ==
    IF env.logs THEN Return(None, <<>>, <<>>)
    ELSE Raise(FileNotFoundError(<<"logs/automation.logs">>), <<>>, <<>>)

\* load_config(): a fault of open/json.load enters the handler, whose
\* str(e, e.__traceback__) raises TypeError before the f-string is built.
load_config(env) ==
    IF env.readable THEN Return(env.json, <<>>, <<>>)
    ELSE Raise(TypeError(<<"str() argument 'encoding' must be str, not traceback">>), <<>>, <<>>)

\* SandiegoRPA.__init__
SandiegoRPA(env, o) ==
    LET w == Drv("set_selenium_implicit_wait", "", <<>>, o[1])
        g == get_logger(env)
        c == load_config(env)
    IN  IF IsFault(o[1]) THEN Raise(DriverFault(o[1]), <<w>>, <<>>)
        ELSE IF g.raised THEN Raise(g.exc, <<w>>, <<>>)
        ELSE IF c.raised THEN Raise(c.exc, <<w>>, <<>>)
        ELSE Return(c.ret, <<w>>, <<>>)

\* SandiegoRPA.login: the driver calls it makes, in order, as <<function, locator, argument>>.
login(fd) ==
    << <<"open_available_browser", "", Get(fd, "base_url")>>,
       <<"switch_to.frame", "", <<"LoginFrame">> >>,
       <<"wait_until_element_is_visible", "id:username", <<>> >>,
       <<"input_text", "id:username", Get(Get(fd, "credentials"), "username")>>,
       <<"wait_until_element_is_visible", "id:passwordRequired", <<>> >>,
       <<"input_text", "id:passwordRequired", Get(Get(fd, "credentials"), "passward")>>,
       <<"click_element_when_visible",
         "xpath://button[contains(@class,'p-element ACA_Button')]//span[1]", <<>> >>,
       <<"switch_to.default_content", "", <<>> >> >>

\* SandiegoRPA.initiate_application: the locators of its facade calls, in order
\* (the first is a find_element, the others are click_element).
InitiateLocators ==
    << "id:ctl00_PlaceHolderMain_MyCollectionList_ListMyCollections_ctrl0_noDataLabel",
       "xpath://a[@module='DSD']",
       "xpath://span[@class='search-sub-menu']//a[1]",
       "id:ctl00_PlaceHolderMain_termAccept",
       "xpath://a[@title='Continue Application »']//span[1]" >>

\* initiate_application with a handler that swallows the error of a facade
\* call, so that the next statement runs.
initiate_application_swallows(i, o) ==
    LET r == IF i = 1 THEN find_element(<<>>, InitiateLocators[i], o)
             ELSE click_element(<<>>, InitiateLocators[i], o)
    IN  IF r.raised THEN Return(None, r.calls, <<>>) ELSE r

\* Statement i of initiate_application, inside its try/except.
initiate_application(i, o) ==
    LET r == IF i = 1 THEN find_element(<<>>, InitiateLocators[i], o)
             ELSE click_element(<<>>, InitiateLocators[i], o)
    IN  IF r.raised
        THEN Raise(Exception(<<"Main Exeption:">> \o Str(r.exc) \o <<"\nTraceback: ", "traceback">>),
                   r.calls, <<>>)
        ELSE r

AllOK(n) == [i \in 1..n |-> OK]

\* main(): manager = SandiegoRPA("data/sandiego.json")
Construct ==
    /\ pc = "construct"
    /\ \E env \in Env, o \in Oracle(1) :
          LET r == SandiegoRPA(env, o)
          IN  /\ calls' = calls \o r.calls
              /\ IF r.raised
                 THEN /\ pending' = r.exc
                      /\ pc' = "except_exception"
                      /\ UNCHANGED <<manager, form_data>>
                 ELSE /\ manager' = TRUE
                      /\ form_data' = r.ret
                      /\ pc' = "login"
                      /\ UNCHANGED pending
    /\ UNCHANGED <<op, args, res, input_clears, stmt, exit>>

\* main(): manager.login(), one driver call at a time
Login ==
    /\ pc = "login"
    /\ \E out \in Outcome :
          LET c == login(form_data)[stmt]
          IN  /\ calls' = Append(calls, Drv(c[1], c[2], c[3], out))
              /\ IF IsFault(out)
                 THEN /\ pending' = DriverFault(out)
                      /\ pc' = "except_exception"
                      /\ UNCHANGED stmt
                 ELSE /\ pc' = IF stmt = Len(login(form_data)) THEN "initiate" ELSE "login"
                      /\ stmt' = IF stmt = Len(login(form_data)) THEN 1 ELSE stmt + 1
                      /\ UNCHANGED pending
    /\ UNCHANGED <<op, args, res, input_clears, manager, form_data, exit>>

\* main(): manager.initiate_application(), one facade call at a time
Initiate ==
    /\ pc = "initiate"
    /\ \E o \in Oracle(3) :
          LET r == initiate_application(stmt, o)
          IN  /\ calls' = calls \o r.calls
              /\ IF r.raised
                 THEN /\ pending' = r.exc
                      /\ pc' = "except_exception"
                      /\ UNCHANGED stmt
                 ELSE /\ pc' = IF stmt = Len(InitiateLocators) THEN "finally_input" ELSE "initiate"
                      /\ stmt' = IF stmt = Len(InitiateLocators) THEN stmt ELSE stmt + 1
                      /\ UNCHANGED pending
    /\ UNCHANGED <<op, args, res, input_clears, manager, form_data, exit>>

\* main(): except Exception as e: raise Exception(...)
ExceptException ==
    /\ pc = "except_exception"
    /\ pending' = Exception(<<"Main Exeption:">> \o Str(pending) \o <<"\nTraceback: ", "traceback">>)
    /\ pc' = "finally_input"
    /\ UNCHANGED <<op, args, res, input_clears, stmt, manager, form_data, calls, exit>>

\* main(): except KeyboardInterrupt: print("Bye")
ExceptKeyboardInterrupt ==
    /\ pc = "except_interrupt"
    /\ pending' = NoExc
    /\ pc' = "finally_input"
    /\ UNCHANGED <<op, args, res, input_clears, stmt, manager, form_data, calls, exit>>

\* main(): finally: input("Enter for close the browser...") returns
FinallyInput ==
    /\ pc = "finally_input"
    /\ pc' = "finally_close"
    /\ UNCHANGED <<op, args, res, input_clears, stmt, manager, form_data, calls, pending, exit>>

\* main(): finally: manager.close_browser(), then the pending exception (if any) leaves main()
FinallyClose ==
    /\ pc = "finally_close"
    /\ IF manager
       THEN \E o \in Oracle(1) :
               LET r == close_browser(<<>>, o)
               IN  /\ calls' = calls \o r.calls
                   /\ exit' = IF r.raised THEN r.exc ELSE pending
       ELSE /\ exit' = UnboundLocalError(<<"manager">>)
            /\ UNCHANGED calls
    /\ pc' = "done"
    /\ UNCHANGED <<op, args, res, input_clears, stmt, manager, form_data, pending>>

\* Ctrl-C while the try body runs: the statement under way is cut short after
\* any number of its driver calls and control passes to except KeyboardInterrupt.
InterruptBody ==
    /\ pc \in {"construct", "login", "initiate"}
    /\ LET cs == IF pc = "construct" THEN <<Drv("set_selenium_implicit_wait", "", <<>>, OK)>>
                 ELSE IF pc = "login" THEN <<>>
                 ELSE initiate_application(stmt, AllOK(3)).calls
       IN  \E k \in 0..Len(cs) : calls' = calls \o SubSeq(cs, 1, k)
    /\ pending' = KeyboardInterrupt
    /\ pc' = "except_interrupt"
    /\ UNCHANGED <<op, args, res, input_clears, stmt, manager, form_data, exit>>

\* Ctrl-C inside one of the two except clauses: it propagates through finally.
InterruptHandler ==
    /\ pc \in {"except_exception", "except_interrupt"}
    /\ pending' = KeyboardInterrupt
    /\ pc' = "finally_input"
    /\ UNCHANGED <<op, args, res, input_clears, stmt, manager, form_data, calls, exit>>

\* Ctrl-C inside the finally clause, at the prompt or before close_browser is called.
InterruptFinally ==
    /\ pc \in {"finally_input", "finally_close"}
    /\ exit' = KeyboardInterrupt
    /\ pc' = "done"
    /\ UNCHANGED <<op, args, res, input_clears, stmt, manager, form_data, calls, pending>>

\* ------------------------------------------------------------------ initial
Init ==
    /\ op = "none"
    /\ args = NoArgs
    /\ res = NoResult
    /\ input_clears \in BOOLEAN
    /\ pc = "construct"
    /\ stmt = 1
    /\ manager = FALSE
    /\ form_data = [k \in {} |-> None]
    /\ calls = <<>>
    /\ pending = NoExc
    /\ exit = NoExc

Next ==
    \/ Call_open_browser
    \/ Call_find_element
    \/ Call_find_elements
    \/ Call_enter_text
    \/ Call_enter_text_with_delay
    \/ Call_is_element_visible
    \/ Call_get_text
    \/ Call_click_element
    \/ Call_take_screenshot
    \/ Call_select_option
    \/ Call_wait_for_element_to_be_visible
    \/ Call_is_element_interactable
    \/ Call_interact_with_element
    \/ Call_wait_for_load
    \/ Call_wait
    \/ Call_close_browser
    \/ Resume

Spec == Init /\ [][Next]_vars

MainNext ==
    \/ Construct
    \/ Login
    \/ Initiate
    \/ ExceptException
    \/ ExceptKeyboardInterrupt
    \/ FinallyInput
    \/ FinallyClose
    \/ InterruptBody
    \/ InterruptHandler
    \/ InterruptFinally

MainSpec == Init /\ [][MainNext]_vars

\* ================================================================== claims
Faulted(cs) == \E i \in 1..Len(cs) : IsFault(cs[i][4])
Cause(cs) == cs[Len(cs)][4]
Indices(cs, fn) == {i \in 1..Len(cs) : cs[i][1] = fn}
CloseCount == Cardinality(Indices(calls, "close_browser"))
IsPrefix(s, t) == Len(s) <= Len(t) /\ \A i \in 1..Len(s) : s[i] = t[i]

\* The page actions of a run: its driver calls other than waits, lookups, the
\* driver set-up and the final close; the text of a write is left out.
PageActions ==
    {"open_available_browser", "switch_to.frame", "input_text", "click_element_when_visible",
     "switch_to.default_content", "click_element"}
IsPageAction(c) == c[1] \in PageActions
Step(c) == IF c[1] = "input_text" THEN <<c[1], c[2], <<>> >> ELSE <<c[1], c[2], c[3]>>
Steps(cs) == LET sel == SelectSeq(cs, IsPageAction) IN [i \in 1..Len(sel) |-> Step(sel[i])]
\* The fixed sequence of page actions of the workflow, for a config record.
FixedSequence(fd) ==
    << <<"open_available_browser", "", fd.base_url>>,
       <<"switch_to.frame", "", <<"LoginFrame">> >>,
       <<"input_text", "id:username", <<>> >>,
       <<"input_text", "id:passwordRequired", <<>> >>,
       <<"click_element_when_visible",
         "xpath://button[contains(@class,'p-element ACA_Button')]//span[1]", <<>> >>,
       <<"switch_to.default_content", "", <<>> >>,
       <<"click_element", "xpath://a[@module='DSD']", <<>> >>,
       <<"click_element", "xpath://span[@class='search-sub-menu']//a[1]", <<>> >>,
       <<"click_element", "id:ctl00_PlaceHolderMain_termAccept", <<>> >>,
       <<"click_element", "xpath://a[@title='Continue Application »']//span[1]", <<>> >> >>

Strategies ==
    {"select_from_list_by_value", "select_from_list_by_label", "select_from_list_by_index"}
HasLocator(name) == name \notin {"none", "open_browser", "take_screenshot", "wait", "close_browser"}
\* A faulted driver call is the last call of the operation.
NoRetry(cs) == \A i \in 1..Len(cs) : IsFault(cs[i][4]) => i = Len(cs)
\* r raises the generic Exception whose message holds the cause of the fault
\* and, if withLocator, the locator.
WrapsLocatorAndCause(loc, r, withLocator) ==
    /\ r.raised
    /\ r.exc.kind = "Exception"
    /\ Contains(r.exc.msg, Cause(r.calls))
    /\ withLocator => Contains(r.exc.msg, loc)
\* The clicks, writes and clears among the calls of an interaction.
ActsOn(cs) == Indices(cs, "click_element") \cup Indices(cs, "input_text") \cup Indices(cs, "clear")
\* The probe of an interaction found the element visible and enabled.
ProbeSaysInteractable(cs) ==
    /\ Len(cs) >= 3
    /\ cs[3] = Drv("is_element_enabled", cs[3][2], <<>>, "True")
IsWrite(c) == c[1] = "input_text"

\* C1: in every run of main() close_browser is invoked on the driver exactly
\* once, whatever the exit path: never twice, and once main() has ended
\* (normally, by an exception of construction, login or initiate_application,
\* or by a keyboard interrupt, also at the prompt) it has been invoked.
ReleasedExactlyOnce ==
    /\ CloseCount <= 1
    /\ pc = "done" => CloseCount = 1

\* C2: the page actions of a run are a prefix of the fixed sequence open at
\* base_url, frame LoginFrame, fill username, fill password, click login,
\* default content, four navigation clicks; they happen only once the config
\* is loaded; and no driver call other than the final close_browser follows a
\* faulted driver call.
WorkflowIsLinear ==
    /\ Steps(calls) # <<>> => manager /\ IsPrefix(Steps(calls), FixedSequence(form_data))
    /\ \A i \in 1..Len(calls) : \A j \in (i + 1)..Len(calls) :
          IsFault(calls[i][4]) => calls[j][1] = "close_browser" /\ j = Len(calls)

\* C2, witness: a run that went through login, faulted on the second
\* navigation click and ended.
WorkflowAbortedInNavigation ==
    /\ pc = "done"
    /\ Len(Steps(calls)) = 8
    /\ \E i \in 1..Len(calls) : IsFault(calls[i][4]) /\ calls[i][1] = "click_element"

\* C3: find_element (find_elements) raises exactly when its wait call does
\* not see the element visible (present) within the timeout; when the wait
\* succeeds it returns the element(s), whatever the driver does afterwards.
NotFoundExactlyOnTimeout ==
    /\ op = "find_element" =>
          /\ res.raised <=> IsFault(res.calls[1][4])
          /\ ~res.raised => res.ret = WebElement(args.locator)
    /\ op = "find_elements" =>
          /\ res.raised <=> IsFault(res.calls[1][4])
          /\ ~res.raised => res.ret = <<"WebElements", args.locator>>

\* C4: a successful enter_text with clear_before_enter = TRUE leaves the field
\* holding exactly the new text, whatever it held before, and the one clear
\* call comes before the write.
EnterTextReplaces ==
    (op = "enter_text" /\ args.flag /\ ~res.raised) =>
        /\ res.field = args.text
        /\ Cardinality(Indices(res.calls, "clear")) = 1
        /\ \A c \in Indices(res.calls, "clear") : \A w \in Indices(res.calls, "input_text") : c < w

\* C4, witness: a successful clearing write over different, non-empty prior
\* contents, on a driver whose input_text does not clear by itself.
EnterTextOverPrior ==
    /\ op = "enter_text" /\ args.flag /\ ~res.raised /\ ~input_clears
    /\ args.prior # <<>> /\ args.text # <<>> /\ args.prior # args.text

\* C5: is_element_interactable never raises; whenever a driver call faults it
\* returns False; it returns True only when the wait and the lookup succeeded
\* and the driver reported the element enabled.
InteractableNeverRaises ==
    op = "is_element_interactable" =>
        /\ ~res.raised
        /\ res.ret \in {True, False}
        /\ Faulted(res.calls) => res.ret = False
        /\ res.ret = True =>
              /\ Len(res.calls) = 3
              /\ res.calls[1] = Drv("wait_until_element_is_visible", args.locator, <<>>, OK)
              /\ res.calls[2] = Drv("find_element", args.locator, <<>>, OK)
              /\ res.calls[3] = Drv("is_element_enabled", args.locator, <<>>, "True")

\* C5, witness: the enabled check itself faulted, after a successful wait and
\* lookup.
InteractableEnabledCheckFaulted ==
    /\ op = "is_element_interactable"
    /\ Len(res.calls) = 3
    /\ IsFault(res.calls[3][4])

\* C6: once the element is found, select_option invokes exactly one select
\* strategy, the one its select_by argument names: by-value only for 'value',
\* by-label only for 'label', by-index only for 'index', and none for any
\* other argument.
SelectRoutesExactly ==
    (op = "select_option" /\ Len(res.calls) >= 2 /\ ~Faulted(SubSeq(res.calls, 1, 2))) =>
        LET used == {res.calls[i][1] : i \in 1..Len(res.calls)} \cap Strategies
        IN  /\ args.mode = "value" => used = {"select_from_list_by_value"}
            /\ args.mode = "label" => used = {"select_from_list_by_label"}
            /\ args.mode = "index" => used = {"select_from_list_by_index"}
            /\ args.mode \notin {"value", "label", "index"} => used = {}

InvalidInteractionIsValueError ==
    op = "interact_with_element" =>
        /\ (args.mode \notin {"click", "enter_text"} \/ (args.mode = "enter_text" /\ args.text = None)) =>
              /\ res.raised
              /\ res.exc.kind = "ValueError"
              /\ ActsOn(res.calls) = {}
        /\ ActsOn(res.calls) # {} => ProbeSaysInteractable(res.calls)
        /\ ~ProbeSaysInteractable(res.calls) => res.raised /\ ActsOn(res.calls) = {}

\* C9: login opens the browser at the configured base_url and writes the
\* configured username into the username field and the configured password
\* into the password field, never an absent value.
LoginWritesConfiguredCredentials ==
    \A i \in 1..Len(calls) :
        /\ calls[i][1] = "open_available_browser" => calls[i][3] = form_data.base_url
        /\ (calls[i][1] = "input_text" /\ calls[i][2] = "id:username") =>
              calls[i][3] = form_data.credentials.username
        /\ (calls[i][1] = "input_text" /\ calls[i][2] = "id:passwordRequired") =>
              calls[i][3] = form_data.credentials.password /\ calls[i][3] # None

\* C10: enter_text_with_delay waits for visibility once, clears at most once
\* (only when clear_before_enter, and before any write), writes the
\* characters of the text one call each, in order, each call addressed by the
\* locator and followed by a pause; a faulted write is the last call and the
\* error is raised; a successful run makes exactly len(text) writes.
DelayedEntryWritesCharByChar ==
    op = "enter_text_with_delay" =>
        LET cs == res.calls
            W == SelectSeq(cs, IsWrite)
        IN  /\ Cardinality(Indices(cs, "wait_until_element_is_visible")) = 1
            /\ cs[1][1] = "wait_until_element_is_visible"
            /\ Cardinality(Indices(cs, "clear")) <= 1
            /\ Indices(cs, "clear") # {} => args.flag
            /\ \A c \in Indices(cs, "clear") : \A w \in Indices(cs, "input_text") : c < w
            /\ Len(W) <= Len(args.text)
            /\ \A k \in 1..Len(W) : W[k][2] = args.locator /\ W[k][3] = <<args.text[k]>>
            /\ ~res.raised => Len(W) = Len(args.text)
            /\ \A i \in Indices(cs, "input_text") :
                  IF IsFault(cs[i][4]) THEN i = Len(cs) /\ res.raised
                  ELSE i < Len(cs) /\ cs[i + 1][1] = "time.sleep"

\* C10, witness: a successful delayed entry of a text of two different
\* characters, cleared first.
DelayedEntryOfTwoChars ==
    /\ op = "enter_text_with_delay" /\ ~res.raised /\ args.flag
    /\ Len(args.text) >= 2 /\ args.text[1] # args.text[2]

====
